---- MODULE Spec2Model ----
(***************************************************************************)
(* Sliding-window TF motif scoring                                         *)
(* (src/src/grn_inference/pipeline/sliding_window_tf_peak_motifs.py).      *)
(*                                                                         *)
(* Three specifications share the variables below:                         *)
(*   SpecScan : reference genome + peak table -> encoded peak sequences -> *)
(*              padded matrices -> score_all_peaks (the numeric kernel);   *)
(*   SpecPWM  : species label + motif table -> background frequencies ->   *)
(*              the PWM a task hands to the kernel;                        *)
(*   Spec     : runs of associate_tf_with_motif_pwm over a per-TF cache    *)
(*              directory, with a pool of worker processes.                *)
(*                                                                         *)
(* float64 values are modelled as records [nan, v]: either NaN or an exact *)
(* integer v (rounding of float addition is not modelled).                 *)
(***************************************************************************)
EXTENDS Integers, Sequences, FiniteSets

VARIABLES
    peak_df,         \* peak table: sequence of [chromosome, start, end]
    chr_pos_to_seq,  \* sequence table: peaks with "+ seq" / "- seq" code arrays
    seqs_plus,       \* padded plus-strand matrix (sequence of rows)
    seqs_minus,      \* padded minus-strand matrix
    pwm_values,      \* the PWM handed to the kernel
    out,             \* score_all_peaks' result vector
    kpc,             \* position of the scan stage
    tss_exists,      \* tss_distance_score.parquet is present in output_dir
    species,         \* --species
    gene_names,      \* target_id values of tss_distance_score.parquet
    motif_df,        \* the table read from one motif file (rows: positions)
    background_freq, \* what get_background_freq returned
    cache,           \* tmp/sliding_window_tf_scores: TF name -> <TF>.parquet
    pc,              \* position of main
    filtered_motif_files, \* the motif files submitted by the current run
    task,            \* motif file -> state of its future / running task
    worker,          \* pool process -> state, and whether its globals are set
    wopen,           \* TF name -> tasks that have <TF>.parquet open for writing
    clash,           \* TF name -> tasks whose writes of <TF>.parquet overlapped
    result,          \* outcome of the current run (aggregated table or fatal error)
    final_written,   \* sliding_window_tf_to_peak_score.parquet written by this run
    prev,            \* outcome of the preceding run
    cache0,          \* the cache directory as the current run found it
    nscans,          \* score_all_peaks calls of the current run
    wlog             \* <<motif file, TF>> cache writes begun in the current run

scanVars == <<peak_df, chr_pos_to_seq, seqs_plus, seqs_minus, pwm_values, out, kpc>>

inputVars == <<tss_exists, species, gene_names>>

runVars == <<cache, pc, filtered_motif_files, task, worker, wopen, clash, result,
             final_written, prev, cache0, nscans, wlog>>

pwmVars == <<motif_df, background_freq>>

vars == <<scanVars, inputVars, pwmVars, runVars>>

----------------------------------------------------------------------------
(* Bounds of the model *)

NumPeaks == 2      \* peaks in the peak table
MaxPeakLen == 3    \* longest peak (end - start)
NumCpu == 2        \* --num_cpu: processes of the pool
MaxWidth == 2      \* longest motif table (positions) of SpecPWM

----------------------------------------------------------------------------
(* float64 *)

Num(x) == [nan |-> FALSE, v |-> x]
NaN == [nan |-> TRUE, v |-> 0]

\* a + b on float64: NaN is absorbing.
FAdd(a, b) == IF a.nan \/ b.nan THEN NaN ELSE Num(a.v + b.v)

\* A matrix of integers as a float64 matrix.
Mat(m) == [r \in 1..Len(m) |-> [c \in 1..Len(m[r]) |-> Num(m[r][c])]]

----------------------------------------------------------------------------
(* Sequence encoding: find_ATAC_peak_sequence *)

\* The fasta records of the reference genome directory, in reading order.
\* Chromosome names identify the records (one record per chromosome).
Reference ==
    << [id |-> "chr1", seq |-> <<"A", "C", "G", "T", "N", "r">>],
       [id |-> "chr2", seq |-> <<"a", "C">>] >>

\* str.upper() on one character of a fasta record.
Upper(ch) ==
    CASE ch = "a" -> "A" [] ch = "c" -> "C" [] ch = "g" -> "G"
      [] ch = "t" -> "T" [] ch = "n" -> "N" [] ch = "r" -> "R"
      [] ch = "y" -> "Y" [] OTHER -> ch

\* Seq.complement() on one character (case is kept; IUPAC R <-> Y).
Complement(ch) ==
    CASE ch = "A" -> "T" [] ch = "T" -> "A" [] ch = "C" -> "G" [] ch = "G" -> "C"
      [] ch = "a" -> "t" [] ch = "t" -> "a" [] ch = "c" -> "g" [] ch = "g" -> "c"
      [] ch = "R" -> "Y" [] ch = "Y" -> "R" [] ch = "r" -> "y" [] ch = "y" -> "r"
      [] OTHER -> ch

\* The 256-entry lookup table: A,C,G,T,N -> 0..4, everything else -> -1.
lookup(ch) ==
    CASE ch = "A" -> 0 [] ch = "C" -> 1 [] ch = "G" -> 2 [] ch = "T" -> 3
      [] ch = "N" -> 4 [] OTHER -> -1

\* (mutation of NegMapped: the reverse complement)
NegMapped_reverseComplement(rec) ==
    [p \in 1..Len(rec.seq) |-> lookup(Upper(Complement(rec.seq[Len(rec.seq) + 1 - p])))]

\* chr_seq_plus_mapped / chr_seq_neg_mapped of one fasta record.
PlusMapped(rec) == [p \in 1..Len(rec.seq) |-> lookup(Upper(rec.seq[p]))]
NegMapped(rec) == [p \in 1..Len(rec.seq) |-> lookup(Upper(Complement(rec.seq[p])))]

Min(a, b) == IF a < b THEN a ELSE b
Max(a, b) == IF a > b THEN a ELSE b

\* Python's arr[start:end] for 0 <= start (the end is clipped to the array).
Slice(arr, start, end) ==
    LET e == Min(end, Len(arr))
    IN  IF start >= e THEN << >> ELSE [p \in 1..(e - start) |-> arr[start + p]]

\* The rows of peak_df on one chromosome, in table order.
RECURSIVE SelectChr(_, _)
SelectChr(df, id) ==
    IF df = << >> THEN << >>
    ELSE (IF Head(df).chromosome = id THEN <<Head(df)>> ELSE << >>) \o SelectChr(Tail(df), id)

\* chr_peaks for one fasta record: its peaks with their two code arrays.
ChrPeaks(df, rec) ==
    LET rows == SelectChr(df, rec.id)
    IN  [n \in 1..Len(rows) |->
            [chromosome |-> rows[n].chromosome, start |-> rows[n].start, end |-> rows[n].end,
             plus  |-> Slice(PlusMapped(rec), rows[n].start, rows[n].end),
             minus |-> Slice(NegMapped(rec), rows[n].start, rows[n].end)]]

\* The loop over the fasta records: chr_seq_list concatenated.
RECURSIVE ConcatChrPeaks(_, _)
ConcatChrPeaks(df, recs) ==
    IF recs = << >> THEN << >>
    ELSE (IF \E n \in 1..Len(df) : df[n].chromosome = Head(recs).id
          THEN ChrPeaks(df, Head(recs)) ELSE << >>) \o ConcatChrPeaks(df, Tail(recs))

\* The table find_ATAC_peak_sequence returns (when it returns).
find_ATAC_peak_sequence(df) == ConcatChrPeaks(df, Reference)

\* len(chr_seq_list) = 0: no fasta record carries the chromosome of any peak, and
\* chr_seq_list[0] raises IndexError.
NoChrMatched(df) ==
    ~\E r \in 1..Len(Reference), n \in 1..Len(df) : df[n].chromosome = Reference[r].id

----------------------------------------------------------------------------
(* Padding: associate_tf_with_motif_pwm.pad_sequences *)

RECURSIVE MaxOf(_, _)
MaxOf(lens, acc) == IF lens = << >> THEN acc ELSE MaxOf(Tail(lens), Max(acc, Head(lens)))

\* chr_pos_to_seq["peak_len"].max()
max_len(tbl) == MaxOf([n \in 1..Len(tbl) |-> Len(tbl[n].plus)], 0)

\* (mutation of pad_sequences: the tail is filled with 0, the code of A)
pad_sequences_padZero(seqs, fixed_len) ==
    [i \in 1..Len(seqs) |->
        [c \in 1..fixed_len |-> IF c <= Len(seqs[i]) THEN seqs[i][c] ELSE 0]]

\* padded[i, :len(seq)] = seq[:fixed_len], the rest pad_val = -1
pad_sequences(seqs, fixed_len) ==
    [i \in 1..Len(seqs) |->
        [c \in 1..fixed_len |-> IF c <= Len(seqs[i]) THEN seqs[i][c] ELSE -1]]

----------------------------------------------------------------------------
(* The scanning kernel: score_all_peaks *)

\* for k in range(wsize): the sum of one window starting at column j (0-based).
RECURSIVE WindowSum(_, _, _, _, _)
WindowSum(strand, pwm, j, k, s) ==
    IF k >= Len(pwm) THEN s
    ELSE LET idx == strand[j + k + 1]
         IN  WindowSum(strand, pwm, j, k + 1,
                       IF 0 <= idx /\ idx < 4 THEN FAdd(s, pwm[k + 1][idx + 1]) ELSE s)

\* (mutation of LastStart: the last window is left out)
LastStart_dropLast(L, wsize) == L - wsize - 1

\* (mutation of LastStart: one window more, starting past the last full one)
LastStart_pastEnd(L, wsize) == L - wsize + 1

\* range(L - wsize + 1): the last window start, 0-based (none when negative).
LastStart(L, wsize) == L - wsize

\* The columns j + k at which the two loops read a strand row (0-based).
KernelSeqReads(L, wsize) == {j + k : j \in 0..LastStart(L, wsize), k \in 0..(wsize - 1)}

\* The <<row k, column idx>> at which pwm_values is read for one strand row:
\* the reads guarded by 0 <= idx < 4.
KernelPwmReads(strand, L, wsize) ==
    { rc \in {<<k, strand[j + k + 1]>> : j \in 0..LastStart(L, wsize), k \in 0..(wsize - 1)} :
        0 <= rc[2] /\ rc[2] < 4 }

\* for j in range(L - wsize + 1): total += s
RECURSIVE StrandTotal(_, _, _, _, _)
StrandTotal(strand, pwm, L, j, total) ==
    IF j > LastStart(L, Len(pwm)) THEN total
    ELSE StrandTotal(strand, pwm, L, j + 1, FAdd(total, WindowSum(strand, pwm, j, 0, Num(0))))

\* One iteration of the prange loop: plus strand, then minus strand.
PeakScore(plus_i, minus_i, pwm, L) ==
    StrandTotal(minus_i, pwm, L, 0, StrandTotal(plus_i, pwm, L, 0, Num(0)))

score_all_peaks(plus, minus, pwm) ==
    LET L == IF Len(plus) = 0 THEN 0 ELSE Len(plus[1])
    IN  [i \in 1..Len(plus) |-> PeakScore(plus[i], minus[i], pwm, L)]

----------------------------------------------------------------------------
(* Inputs of a run of main *)

\* tf_names_file: the rows (TF_Name, Motif_ID) of TF_Information_all_motifs.txt.
\* T1 has two motifs; M2 is the motif of two TFs.
TF_Information ==
    << [TF_Name |-> "T1", Motif_ID |-> "M1"],
       [TF_Name |-> "T1", Motif_ID |-> "M2"],
       [TF_Name |-> "T2", Motif_ID |-> "M2"],
       [TF_Name |-> "T3", Motif_ID |-> "M3"] >>

TFNames == {"T1", "T2", "T3"}

\* os.listdir(meme_dir)
MemeDir == <<"M1.txt", "M2.txt", "M3.txt", "M9.txt">>

MotifFiles == {MemeDir[n] : n \in 1..Len(MemeDir)}

\* motif_file.replace('.txt', '')
MotifId(file) ==
    CASE file = "M1.txt" -> "M1" [] file = "M2.txt" -> "M2"
      [] file = "M3.txt" -> "M3" [] file = "M9.txt" -> "M9"

\* pd.read_csv of a motif file: frequencies in percent per position (rows) and
\* base A,C,G,T (columns); an empty field reads as NaN.  ok = FALSE: a file whose
\* columns are not the four bases, for which building the PWM raises.
MotifFile(file) ==
    CASE file = "M1.txt" ->
            [ok |-> TRUE, freq |-> << <<Num(100), Num(0), Num(0), Num(0)>> >>]
      [] file = "M2.txt" ->
            [ok |-> TRUE, freq |-> << <<Num(0), Num(100), Num(0), Num(0)>>,
                                      <<Num(50), Num(0), NaN, Num(50)>> >>]
      [] file = "M3.txt" -> [ok |-> FALSE, freq |-> << >>]
      [] file = "M9.txt" ->
            [ok |-> TRUE, freq |-> << <<Num(0), Num(0), Num(0), Num(100)>> >>]

\* The peak table of the runs (format_peaks of the de-duplicated peak ids).
RunPeaks ==
    << [chromosome |-> "chr1", start |-> 0, end |-> 3],
       [chromosome |-> "chr1", start |-> 2, end |-> 4] >>

\* The peak table of an earlier run that left cache files behind.
OldPeaks == << [chromosome |-> "chr2", start |-> 0, end |-> 2] >>

----------------------------------------------------------------------------
(* Background frequencies and the PWM of a motif file *)

\* (mutation of get_background_freq: the two vectors swapped)
get_background_freq_swapped(sp) ==
    IF sp \in {"human", "hg38", "mmusculus"}
    THEN [ok |-> TRUE, freq |-> <<29170, 20830, 20830, 29170>>]
    ELSE IF sp \in {"mouse", "mm10", "hsapiens"}
    THEN [ok |-> TRUE, freq |-> <<29182, 20818, 20818, 29182>>]
    ELSE [ok |-> FALSE, freq |-> << >>]

\* get_background_freq: A,C,G,T frequencies in units of 1e-5; ok = FALSE: raises.
get_background_freq(sp) ==
    IF sp \in {"human", "hg38", "mmusculus"}
    THEN [ok |-> TRUE, freq |-> <<29182, 20818, 20818, 29182>>]
    ELSE IF sp \in {"mouse", "mm10", "hsapiens"}
    THEN [ok |-> TRUE, freq |-> <<29170, 20830, 20830, 29170>>]
    ELSE [ok |-> FALSE, freq |-> << >>]

\* np.log2(freq / bg + 1) in units of 1/1000, rounded, for the frequencies
\* (percent) and background values (1e-5) that occur.
Log2Odds(f, bg) ==
    IF f.nan THEN NaN
    ELSE CASE f.v = 0 -> Num(0)
           [] f.v = 50 /\ bg \in {29182, 29170} -> Num(1440)
           [] f.v = 50 /\ bg \in {20818, 20830} -> Num(1766)
           [] f.v = 100 /\ bg = 29182 -> Num(2146)
           [] f.v = 100 /\ bg = 29170 -> Num(2147)
           [] f.v = 100 /\ bg = 20818 -> Num(2537)
           [] f.v = 100 /\ bg = 20830 -> Num(2536)

ZeroRow == <<Num(0), Num(0), Num(0), Num(0)>>

\* (mutation of BuildPWM: the row of zeros is not appended)
BuildPWM_noZeroRow(freq, bg) ==
    [r \in 1..Len(freq) |-> [c \in 1..4 |-> Log2Odds(freq[r][c], bg[c])]]

\* pwm = np.vstack([log2(motif_df.T.div(bg).add(1)).T, zeros((1, 4))])
BuildPWM(freq, bg) ==
    [r \in 1..Len(freq) |-> [c \in 1..4 |-> Log2Odds(freq[r][c], bg[c])]] \o <<ZeroRow>>

----------------------------------------------------------------------------
(* The per-TF cache directory and the tables written to it *)

Absent == [st |-> "absent", rows |-> << >>]
\* A file that is no readable parquet file: truncated, or still being written.
Corrupt == [st |-> "corrupt", rows |-> << >>]
Valid(rows) == [st |-> "valid", rows |-> rows]

\* ParquetFile(path) succeeds; ArrowInvalid and OSError are caught.
is_valid_parquet(c, tf) == c[tf].st = "valid"

\* f'{row["chromosome"]}:{row["start"]}-{row["end"]}', kept as the triple it prints.
PeakId(row) == <<row.chromosome, row.start, row.end>>

\* (mutation of dropna: rows with a NaN score are kept)
dropna_keepNaN(rows) == rows

\* df.dropna(): the peak id and the TF name are never null, the score is when NaN.
RECURSIVE dropna(_)
dropna(rows) ==
    IF rows = << >> THEN << >>
    ELSE (IF Head(rows).sliding_window_score.nan THEN << >> ELSE <<Head(rows)>>)
         \o dropna(Tail(rows))

\* (mutation of TFFrame: the scores are taken in the opposite order)
TFFrame_reversedScores(tf, tbl, scores) ==
    dropna([i \in 1..Len(tbl) |->
              [peak_id |-> PeakId(tbl[i]), source_id |-> tf,
               sliding_window_score |-> scores[Len(tbl) + 1 - i]]])

\* The table a task writes to <tf>.parquet.
TFFrame(tf, tbl, scores) ==
    dropna([i \in 1..Len(tbl) |->
              [peak_id |-> PeakId(tbl[i]), source_id |-> tf,
               sliding_window_score |-> scores[i]]])

PlusSeqs(tbl) == [n \in 1..Len(tbl) |-> tbl[n].plus]
MinusSeqs(tbl) == [n \in 1..Len(tbl) |-> tbl[n].minus]

\* The scores a task computes for one motif file over a sequence table.
MotifScores(file, sp, tbl) ==
    score_all_peaks(pad_sequences(PlusSeqs(tbl), max_len(tbl)),
                    pad_sequences(MinusSeqs(tbl), max_len(tbl)),
                    BuildPWM(MotifFile(file).freq, get_background_freq(sp).freq))

\* A cache file left by an earlier run over OldPeaks (for T3, scored when its
\* motif file was still well formed).
OldMotif(tf) == CASE tf = "T1" -> "M1.txt" [] tf = "T2" -> "M2.txt" [] tf = "T3" -> "M9.txt"
OldFrame(tf) ==
    TFFrame(tf, find_ATAC_peak_sequence(OldPeaks),
            MotifScores(OldMotif(tf), "mm10", find_ATAC_peak_sequence(OldPeaks)))

----------------------------------------------------------------------------
(* The TF-to-motif mapping and the cache filter *)

\* tf_df[tf_df["TF_Name"].isin(gene_names)]
RECURSIVE FilterTF(_, _)
FilterTF(df, genes) ==
    IF df = << >> THEN << >>
    ELSE (IF Head(df).TF_Name \in genes THEN <<Head(df)>> ELSE << >>)
         \o FilterTF(Tail(df), genes)

tf_df(genes) == FilterTF(TF_Information, genes)

\* tf_df["Motif_ID"].unique()
tf_motif_names(genes) == {tf_df(genes)[n].Motif_ID : n \in 1..Len(tf_df(genes))}

\* tf_df[tf_df["Motif_ID"] == motif_id]["TF_Name"].values
RECURSIVE TFNamesOf(_, _)
TFNamesOf(df, motif) ==
    IF df = << >> THEN << >>
    ELSE (IF Head(df).Motif_ID = motif THEN <<Head(df).TF_Name>> ELSE << >>)
         \o TFNamesOf(Tail(df), motif)

tf_names(file, genes) == TFNamesOf(tf_df(genes), MotifId(file))

\* (mutation of all_cached: the cache is never trusted)
all_cached_never(file, genes, c) == FALSE

\* all(is_valid_parquet(<tf>.parquet) for tf in tf_names)
all_cached(file, genes, c) ==
    \A n \in 1..Len(tf_names(file, genes)) : is_valid_parquet(c, tf_names(file, genes)[n])

\* (mutation of NeedsScoring: a motif is skipped once any of its TFs is cached)
NeedsScoring_anyCached(file, genes, c) ==
    /\ MotifId(file) \in tf_motif_names(genes)
    /\ \A n \in 1..Len(tf_names(file, genes)) : ~is_valid_parquet(c, tf_names(file, genes)[n])

\* if motif_id in tf_motif_names: ... if not all_cached: append
NeedsScoring(file, genes, c) ==
    /\ MotifId(file) \in tf_motif_names(genes)
    /\ ~all_cached(file, genes, c)

\* The loop over os.listdir(meme_dir) that builds filtered_motif_files.
RECURSIVE FilterMotifFiles(_, _, _)
FilterMotifFiles(files, genes, c) ==
    IF files = << >> THEN << >>
    ELSE (IF NeedsScoring(Head(files), genes, c) THEN <<Head(files)>> ELSE << >>)
         \o FilterMotifFiles(Tail(files), genes, c)

Range(sq) == {sq[n] : n \in 1..Len(sq)}

----------------------------------------------------------------------------
(* Aggregation *)

\* os.listdir(parquet_dir): the <TF>.parquet files that exist, in directory order.
RECURSIVE ListDir(_, _)
ListDir(c, names) ==
    IF names = << >> THEN << >>
    ELSE (IF c[Head(names)].st # "absent" THEN <<Head(names)>> ELSE << >>)
         \o ListDir(c, Tail(names))

DirOrder == <<"T1", "T2", "T3">>

\* get_valid_parquet_files: the listed files whose metadata can be read.
RECURSIVE ValidOf(_, _)
ValidOf(c, names) ==
    IF names = << >> THEN << >>
    ELSE (IF c[Head(names)].st = "valid" THEN <<Head(names)>> ELSE << >>)
         \o ValidOf(c, Tail(names))

get_valid_parquet_files(c) == ValidOf(c, ListDir(c, DirOrder))

\* (mutation of ReadParquet: every file is read twice)
RECURSIVE ReadParquet_twice(_, _)
ReadParquet_twice(c, names) ==
    IF names = << >> THEN << >>
    ELSE c[Head(names)].rows \o c[Head(names)].rows \o ReadParquet_twice(c, Tail(names))

\* dd.read_parquet(valid_parquet_files).compute(): the files' rows concatenated.
RECURSIVE ReadParquet(_, _)
ReadParquet(c, names) ==
    IF names = << >> THEN << >>
    ELSE c[Head(names)].rows \o ReadParquet(c, Tail(names))

NoResult == [st |-> "none", rows |-> << >>]
FatalError == [st |-> "fatal", rows |-> << >>]
Table(rows) == [st |-> "table", rows |-> rows]

----------------------------------------------------------------------------
(* Tasks and pool processes *)

\* A task: the state of its future (st), its process (w), its position in the
\* loop over its TFs (k, wr), its local scores, whether an exception was raised
\* in its try block (err), and the value it returned (flag).
NoTask == [st |-> "none", w |-> 0, k |-> 0, wr |-> FALSE, scores |-> << >>,
           err |-> FALSE, flag |-> FALSE]
Queued == [NoTask EXCEPT !.st = "queued"]

Workers == 1..NumCpu
Down == [st |-> "down", init |-> FALSE]

\* No motif table is read and get_background_freq has returned nothing.
NoBackground == [ok |-> FALSE, freq |-> << >>]

IdlePwm == motif_df = << >> /\ background_freq = NoBackground

\* The state of the run variables while no run is modelled.
IdleRun ==
    /\ tss_exists = TRUE
    /\ species = "mm10"
    /\ gene_names = {}
    /\ cache = [tf \in TFNames |-> Absent]
    /\ pc = "idle"
    /\ filtered_motif_files = << >>
    /\ task = [f \in MotifFiles |-> NoTask]
    /\ worker = [w \in Workers |-> Down]
    /\ wopen = [tf \in TFNames |-> {}]
    /\ clash = [tf \in TFNames |-> {}]
    /\ result = NoResult
    /\ final_written = FALSE
    /\ prev = NoResult
    /\ cache0 = [tf \in TFNames |-> Absent]
    /\ nscans = 0
    /\ wlog = {}

----------------------------------------------------------------------------
(* SpecScan: the scan stage on bounded inputs *)

\* Peaks of the reference: half-open [start, end) inside their chromosome.
PeakSet ==
    { [chromosome |-> Reference[r].id, start |-> s, end |-> s + l] :
        r \in 1..Len(Reference), s \in 0..Len(Reference[1].seq), l \in 1..MaxPeakLen }

InRange(p) == \E r \in 1..Len(Reference) :
                 Reference[r].id = p.chromosome /\ p.end <= Len(Reference[r].seq)

\* Peak tables: NumPeaks distinct peaks (peak ids are de-duplicated by main).
PeakTables ==
    { t \in [1..NumPeaks -> {p \in PeakSet : InRange(p)}] :
        \A a, b \in 1..NumPeaks : a # b => t[a] # t[b] }

\* PWMs handed to the kernel.
PWMSet ==
    { Mat(<< <<1, 0, 0, 0>>, <<0, 1, 0, 0>> >>),
      Mat(<< <<1, 2, 3, 4>> >>),
      Mat(<< <<2, 0, 1, 0>>, <<0, 1, 0, 3>>, <<0, 0, 0, 0>> >>),
      << <<NaN, Num(1), Num(0), Num(0)>>, <<Num(0), Num(0), Num(2), Num(0)>> >> }

ScanInit ==
    /\ peak_df \in PeakTables
    /\ pwm_values \in PWMSet
    /\ chr_pos_to_seq = << >>
    /\ seqs_plus = << >>
    /\ seqs_minus = << >>
    /\ out = << >>
    /\ kpc = "peaks"
    /\ IdlePwm
    /\ IdleRun

\* main: chr_pos_to_seq = find_ATAC_peak_sequence(peak_df, ...)
FindSequences ==
    /\ kpc = "peaks"
    /\ IF NoChrMatched(peak_df)
       THEN kpc' = "index_error" /\ UNCHANGED chr_pos_to_seq
       ELSE chr_pos_to_seq' = find_ATAC_peak_sequence(peak_df) /\ kpc' = "sequences"
    /\ UNCHANGED <<peak_df, seqs_plus, seqs_minus, pwm_values, out, inputVars, pwmVars, runVars>>

\* associate_tf_with_motif_pwm: max_len, then both strands padded.
PadSequences ==
    /\ kpc = "sequences"
    /\ seqs_plus' = pad_sequences([n \in 1..Len(chr_pos_to_seq) |-> chr_pos_to_seq[n].plus],
                                  max_len(chr_pos_to_seq))
    /\ seqs_minus' = pad_sequences([n \in 1..Len(chr_pos_to_seq) |-> chr_pos_to_seq[n].minus],
                                   max_len(chr_pos_to_seq))
    /\ kpc' = "padded"
    /\ UNCHANGED <<peak_df, chr_pos_to_seq, pwm_values, out, inputVars, pwmVars, runVars>>

\* process_motif_file_and_save: scores = score_all_peaks(plus, minus, pwm)
ScorePeaks ==
    /\ kpc = "padded"
    /\ out' = score_all_peaks(seqs_plus, seqs_minus, pwm_values)
    /\ kpc' = "scored"
    /\ UNCHANGED <<peak_df, chr_pos_to_seq, seqs_plus, seqs_minus, pwm_values, inputVars, pwmVars, runVars>>

ScanNext == FindSequences \/ PadSequences \/ ScorePeaks

SpecScan == ScanInit /\ [][ScanNext]_vars

----------------------------------------------------------------------------
(* SpecSeq: sequence extraction and padding over peaks of any position *)

\* Peaks on the chromosomes of the reference and on one it does not have; a
\* peak may end past the end of its chromosome (chr2 has two bases).
SeqPeakSet ==
    { [chromosome |-> c, start |-> s, end |-> s + l] :
        c \in {"chr1", "chr2", "chrX"}, s \in 0..2, l \in 1..MaxPeakLen }

SeqPeakTables ==
    { t \in [1..NumPeaks -> SeqPeakSet] : \A a, b \in 1..NumPeaks : a # b => t[a] # t[b] }

SeqInit ==
    /\ peak_df \in SeqPeakTables
    /\ pwm_values = << >>
    /\ chr_pos_to_seq = << >>
    /\ seqs_plus = << >>
    /\ seqs_minus = << >>
    /\ out = << >>
    /\ kpc = "peaks"
    /\ IdlePwm
    /\ IdleRun

SeqNext == FindSequences \/ PadSequences

SpecSeq == SeqInit /\ [][SeqNext]_vars

----------------------------------------------------------------------------
(* SpecPWM: from the species label and a motif table to the PWM *)

\* Values of --species: the six labels get_background_freq compares with, and
\* labels it does not know (the comparison is case-sensitive).
SpeciesLabels ==
    {"human", "hg38", "mmusculus", "mouse", "mm10", "hsapiens", "rat", "Human", ""}

\* Rows of a motif table: the frequencies (percent) of A, C, G, T at one position.
MotifRows ==
    { <<Num(100), Num(0), Num(0), Num(0)>>, <<Num(0), Num(100), Num(0), Num(0)>>,
      <<Num(50), Num(0), NaN, Num(50)>>, <<Num(0), Num(0), Num(50), Num(50)>> }

\* Motif tables of width 0..MaxWidth with the four base columns.
MotifTables == UNION {[1..w -> MotifRows] : w \in 0..MaxWidth}

PwmInit ==
    /\ species \in SpeciesLabels
    /\ motif_df \in MotifTables
    /\ background_freq = NoBackground
    /\ pwm_values = << >>
    /\ kpc = "label"
    /\ peak_df = << >>
    /\ chr_pos_to_seq = << >>
    /\ seqs_plus = << >>
    /\ seqs_minus = << >>
    /\ out = << >>
    /\ tss_exists = TRUE
    /\ gene_names = {}
    /\ cache = [tf \in TFNames |-> Absent]
    /\ pc = "idle"
    /\ filtered_motif_files = << >>
    /\ task = [f \in MotifFiles |-> NoTask]
    /\ worker = [w \in Workers |-> Down]
    /\ wopen = [tf \in TFNames |-> {}]
    /\ clash = [tf \in TFNames |-> {}]
    /\ result = NoResult
    /\ final_written = FALSE
    /\ prev = NoResult
    /\ cache0 = [tf \in TFNames |-> Absent]
    /\ nscans = 0
    /\ wlog = {}

\* associate_tf_with_motif_pwm: background_freq = get_background_freq(species);
\* when it raises, nothing is returned.
GetBackgroundFreq ==
    /\ kpc = "label"
    /\ IF get_background_freq(species).ok
       THEN background_freq' = get_background_freq(species) /\ kpc' = "background"
       ELSE UNCHANGED background_freq /\ kpc' = "raised"
    /\ UNCHANGED <<peak_df, chr_pos_to_seq, seqs_plus, seqs_minus, pwm_values, out,
                   inputVars, motif_df, runVars>>

\* process_motif_file_and_save: the PWM built from the motif table, as handed to
\* score_all_peaks.
BuildPwm ==
    /\ kpc = "background"
    /\ pwm_values' = BuildPWM(motif_df, background_freq.freq)
    /\ kpc' = "pwm"
    /\ UNCHANGED <<peak_df, chr_pos_to_seq, seqs_plus, seqs_minus, out, inputVars,
                   pwmVars, runVars>>

PwmNext == GetBackgroundFreq \/ BuildPwm

SpecPWM == PwmInit /\ [][PwmNext]_vars

----------------------------------------------------------------------------
(* Spec: runs of main over the cache directory *)

\* The gene lists of the runs: which TFs of TF_Information survive the filter.
GeneNameSets == {{"T1", "T2"}, {"T1", "T2", "T3"}, {"T2"}, {"T3"}, {}}

Init ==
    /\ peak_df = RunPeaks
    /\ chr_pos_to_seq = << >>
    /\ seqs_plus = << >>
    /\ seqs_minus = << >>
    /\ pwm_values = << >>
    /\ out = << >>
    /\ kpc = "run"
    /\ IdlePwm
    /\ tss_exists \in BOOLEAN
    /\ species \in {"mm10", "rat"}
    /\ gene_names \in GeneNameSets
    /\ cache \in [TFNames -> {Absent, Corrupt} \cup {Valid(OldFrame(tf)) : tf \in TFNames}]
    /\ \A tf \in TFNames : cache[tf].st = "valid" => cache[tf] = Valid(OldFrame(tf))
    /\ pc = "start"
    /\ filtered_motif_files = << >>
    /\ task = [f \in MotifFiles |-> NoTask]
    /\ worker = [w \in Workers |-> Down]
    /\ wopen = [tf \in TFNames |-> {}]
    /\ clash = [tf \in TFNames |-> {}]
    /\ result = NoResult
    /\ final_written = FALSE
    /\ prev = NoResult
    /\ cache0 = cache
    /\ nscans = 0
    /\ wlog = {}

\* (mutation of StartRun: tss_distance_score.parquet is not required)
StartRun_noTssCheck ==
    /\ pc = "start"
    /\ LET tbl == find_ATAC_peak_sequence(peak_df)
           files == FilterMotifFiles(MemeDir, gene_names, cache)
       IN  /\ chr_pos_to_seq' = tbl
           /\ IF NoChrMatched(peak_df) \/ ~get_background_freq(species).ok
              THEN /\ pc' = "fatal"
                   /\ result' = FatalError
                   /\ UNCHANGED <<seqs_plus, seqs_minus, filtered_motif_files, task>>
              ELSE /\ seqs_plus' = pad_sequences(PlusSeqs(tbl), max_len(tbl))
                   /\ seqs_minus' = pad_sequences(MinusSeqs(tbl), max_len(tbl))
                   /\ filtered_motif_files' = files
                   /\ task' = [f \in MotifFiles |->
                                 IF f \in Range(files) THEN Queued ELSE NoTask]
                   /\ pc' = IF Len(files) > 0 THEN "pool" ELSE "aggregate"
                   /\ UNCHANGED result
    /\ UNCHANGED <<peak_df, pwm_values, out, kpc, inputVars, pwmVars, cache, worker, wopen,
                   clash, final_written, prev, cache0, nscans, wlog>>

\* main up to the pool.  Without tss_distance_score.parquet main stops at once
\* (the assert, or read_parquet when asserts are compiled out).  Otherwise the
\* peak sequences are produced (IndexError when no chromosome matched), and
\* associate_tf_with_motif_pwm begins with get_background_freq(species), which
\* raises for an unknown label; then the
\* matrices are padded, the motif files filtered and the tasks submitted.
StartRun ==
    /\ pc = "start"
    /\ IF ~tss_exists
       THEN /\ pc' = "fatal"
            /\ result' = FatalError
            /\ UNCHANGED <<chr_pos_to_seq, seqs_plus, seqs_minus, filtered_motif_files, task>>
       ELSE LET tbl == find_ATAC_peak_sequence(peak_df)
                files == FilterMotifFiles(MemeDir, gene_names, cache)
            IN  /\ chr_pos_to_seq' = tbl
                /\ IF NoChrMatched(peak_df) \/ ~get_background_freq(species).ok
                   THEN /\ pc' = "fatal"
                        /\ result' = FatalError
                        /\ UNCHANGED <<seqs_plus, seqs_minus, filtered_motif_files, task>>
                   ELSE /\ seqs_plus' = pad_sequences(PlusSeqs(tbl), max_len(tbl))
                        /\ seqs_minus' = pad_sequences(MinusSeqs(tbl), max_len(tbl))
                        /\ filtered_motif_files' = files
                        /\ task' = [f \in MotifFiles |->
                                      IF f \in Range(files) THEN Queued ELSE NoTask]
                        /\ pc' = IF Len(files) > 0 THEN "pool" ELSE "aggregate"
                        /\ UNCHANGED result
    /\ UNCHANGED <<peak_df, pwm_values, out, kpc, inputVars, pwmVars, cache, worker, wopen,
                   clash, final_written, prev, cache0, nscans, wlog>>

\* (mutation of WorkerStart: the process takes calls without the initializer)
WorkerStart_noInit(w) ==
    /\ pc = "pool"
    /\ worker[w].st = "down"
    /\ \A v \in Workers : v < w => worker[v].st # "down"
    /\ \E f \in MotifFiles : task[f].st = "queued"
    /\ worker' = [worker EXCEPT ![w] = [st |-> "idle", init |-> FALSE]]
    /\ UNCHANGED <<scanVars, inputVars, pwmVars, cache, pc, filtered_motif_files, task, wopen, clash,
                   result, final_written, prev, cache0, nscans, wlog>>

\* The executor starts its next pool process (on demand, while work is queued);
\* the process runs _init_worker before it takes any call.
WorkerStart(w) ==
    /\ pc = "pool"
    /\ worker[w].st = "down"
    /\ \A v \in Workers : v < w => worker[v].st # "down"
    /\ \E f \in MotifFiles : task[f].st = "queued"
    /\ worker' = [worker EXCEPT ![w] = [st |-> "idle", init |-> TRUE]]
    /\ UNCHANGED <<scanVars, inputVars, pwmVars, cache, pc, filtered_motif_files, task, wopen, clash,
                   result, final_written, prev, cache0, nscans, wlog>>

\* The position of a motif file in filtered_motif_files (submission order).
Pos(f) == CHOOSE n \in 1..Len(filtered_motif_files) : filtered_motif_files[n] = f

\* An idle pool process takes the next call of process_motif_file_and_save from
\* the call queue, which hands the calls out in submission order.
TaskStart(w, f) ==
    /\ pc = "pool"
    /\ worker[w].st = "idle"
    /\ task[f].st = "queued"
    /\ \A g \in MotifFiles : task[g].st = "queued" => Pos(f) <= Pos(g)
    /\ task' = [task EXCEPT ![f].st = "running", ![f].w = w]
    /\ worker' = [worker EXCEPT ![w].st = "busy"]
    /\ UNCHANGED <<scanVars, inputVars, pwmVars, cache, pc, filtered_motif_files, wopen, clash,
                   result, final_written, prev, cache0, nscans, wlog>>

\* (mutation of Failed: the except branch returns True)
Failed_returnsTrue(f) ==
    /\ task' = [task EXCEPT ![f].st = "returned", ![f].err = TRUE, ![f].flag = TRUE,
                             ![f].wr = FALSE, ![f].w = 0]
    /\ worker' = [worker EXCEPT ![task[f].w].st = "idle"]

\* (mutation of Failed: the exception takes the process down and the future is
\* never completed)
Failed_processLost(f) ==
    /\ task' = [task EXCEPT ![f].st = "lost", ![f].err = TRUE, ![f].wr = FALSE]
    /\ worker' = [worker EXCEPT ![task[f].w].st = "lost"]

\* except Exception: log, return False.  The process is free for the next call.
Failed(f) ==
    /\ task' = [task EXCEPT ![f].st = "returned", ![f].err = TRUE, ![f].flag = FALSE,
                             ![f].wr = FALSE, ![f].w = 0]
    /\ worker' = [worker EXCEPT ![task[f].w].st = "idle"]

\* (mutation of TaskScan: the error is not caught and reaches main)
TaskScan_uncaught(f) ==
    /\ pc = "pool"
    /\ task[f].st = "running"
    /\ \E good \in BOOLEAN :
          IF ~good \/ ~worker[task[f].w].init \/ ~MotifFile(f).ok
          THEN /\ pc' = "fatal"
               /\ result' = FatalError
               /\ UNCHANGED <<task, worker, nscans>>
          ELSE /\ task' = [task EXCEPT
                      ![f].st = "writing", ![f].k = 1,
                      ![f].scores = score_all_peaks(seqs_plus, seqs_minus,
                          BuildPWM(MotifFile(f).freq, get_background_freq(species).freq))]
               /\ nscans' = nscans + 1
               /\ UNCHANGED <<worker, pc, result>>
    /\ UNCHANGED <<scanVars, inputVars, pwmVars, cache, filtered_motif_files, wopen, clash,
                   final_written, prev, cache0, wlog>>

\* process_motif_file_and_save up to the loop over the TFs: the motif file is
\* read, the PWM built and every peak scored; good = FALSE: reading raises.
TaskScan(f) ==
    /\ pc = "pool"
    /\ task[f].st = "running"
    /\ \E good \in BOOLEAN :
          IF ~good \/ ~worker[task[f].w].init \/ ~MotifFile(f).ok
          THEN Failed(f) /\ UNCHANGED nscans
          ELSE /\ task' = [task EXCEPT
                      ![f].st = "writing", ![f].k = 1,
                      ![f].scores = score_all_peaks(seqs_plus, seqs_minus,
                          BuildPWM(MotifFile(f).freq, get_background_freq(species).freq))]
               /\ nscans' = nscans + 1
               /\ UNCHANGED worker
    /\ UNCHANGED <<scanVars, inputVars, pwmVars, cache, pc, filtered_motif_files, wopen, clash,
                   result, final_written, prev, cache0, wlog>>

\* (mutation of CurTF: the TFs are taken from the unfiltered mapping)
CurTF_unfiltered(f) == TFNamesOf(TF_Information, MotifId(f))[task[f].k]

\* The TF whose file the task writes next.
CurTF(f) == tf_names(f, gene_names)[task[f].k]

\* pq.write_table opens <tf>.parquet for writing, which truncates it;
\* good = FALSE: building the table or opening the file raises.
WriteOpen(f) ==
    /\ pc = "pool"
    /\ task[f].st = "writing"
    /\ ~task[f].wr
    /\ \E good \in BOOLEAN :
          IF ~good
          THEN Failed(f) /\ UNCHANGED <<cache, wopen, clash, wlog>>
          ELSE LET tf == CurTF(f) IN
               /\ cache' = [cache EXCEPT ![tf] = Corrupt]
               /\ wopen' = [wopen EXCEPT ![tf] = @ \cup {f}]
               /\ clash' = [clash EXCEPT ![tf] = IF wopen[tf] = {} THEN @
                                                 ELSE @ \cup wopen[tf] \cup {f}]
               /\ wlog' = wlog \cup {<<f, tf>>}
               /\ task' = [task EXCEPT ![f].wr = TRUE]
               /\ UNCHANGED worker
    /\ UNCHANGED <<scanVars, inputVars, pwmVars, pc, filtered_motif_files, result, final_written,
                   prev, cache0, nscans>>

\* What <tf>.parquet holds once task f has written and closed it: f's table when
\* no other write overlapped; while another task still has it open, an unfinished
\* file; after overlapping writes, the table of any of them or an unreadable file.
Written(f, tf) ==
    IF wopen[tf] # {f} THEN {Corrupt}
    ELSE IF clash[tf] = {} THEN {Valid(TFFrame(tf, chr_pos_to_seq, task[f].scores))}
    ELSE {Corrupt} \cup {Valid(TFFrame(tf, chr_pos_to_seq, task[g].scores)) : g \in clash[tf]}

\* pq.write_table writes and closes the file; after the last TF the task
\* returns True.  good = FALSE: the write raises and leaves a partial file.
WriteClose(f) ==
    /\ pc = "pool"
    /\ task[f].st = "writing"
    /\ task[f].wr
    /\ LET tf == CurTF(f) IN
       /\ wopen' = [wopen EXCEPT ![tf] = @ \ {f}]
       /\ clash' = [clash EXCEPT ![tf] = IF wopen[tf] = {f} THEN {} ELSE @]
       /\ \E good \in BOOLEAN :
             IF ~good
             THEN /\ cache' = [cache EXCEPT ![tf] = Corrupt]
                  /\ Failed(f)
             ELSE /\ \E file \in Written(f, tf) : cache' = [cache EXCEPT ![tf] = file]
                  /\ IF task[f].k < Len(tf_names(f, gene_names))
                     THEN /\ task' = [task EXCEPT ![f].k = @ + 1, ![f].wr = FALSE]
                          /\ UNCHANGED worker
                     ELSE /\ task' = [task EXCEPT ![f].st = "returned", ![f].flag = TRUE,
                                                  ![f].wr = FALSE, ![f].w = 0]
                          /\ worker' = [worker EXCEPT ![task[f].w].st = "idle"]
    /\ UNCHANGED <<scanVars, inputVars, pwmVars, pc, filtered_motif_files, result, final_written,
                   prev, cache0, nscans, wlog>>

\* (mutation of AwaitAll: main leaves the loop at the first completed future
\* and does not wait for the pool)
AwaitAll_first ==
    /\ pc = "pool"
    /\ \E f \in Range(filtered_motif_files) : task[f].st = "returned"
    /\ task' = [f \in MotifFiles |->
                  IF task[f].st = "returned" THEN [task[f] EXCEPT !.st = "collected"]
                  ELSE task[f]]
    /\ UNCHANGED worker
    /\ pc' = "aggregate"
    /\ UNCHANGED <<scanVars, inputVars, pwmVars, cache, filtered_motif_files, wopen, clash,
                   result, final_written, prev, cache0, nscans, wlog>>

\* for future in as_completed(futures): _ = future.result(), then the end of
\* the with block: main waits until every future is done and has handed over
\* its flag (which is dropped); the pool processes exit.
AwaitAll ==
    /\ pc = "pool"
    /\ \A f \in Range(filtered_motif_files) : task[f].st = "returned"
    /\ task' = [f \in MotifFiles |->
                  IF task[f].st = "returned" THEN [task[f] EXCEPT !.st = "collected"]
                  ELSE task[f]]
    /\ worker' = [w \in Workers |-> Down]
    /\ pc' = "aggregate"
    /\ UNCHANGED <<scanVars, inputVars, pwmVars, cache, filtered_motif_files, wopen, clash,
                   result, final_written, prev, cache0, nscans, wlog>>

\* (mutation of Aggregate: an empty directory yields an empty table that is written)
Aggregate_emptyTable ==
    /\ pc = "aggregate"
    /\ result' = Table(ReadParquet(cache, get_valid_parquet_files(cache)))
    /\ pc' = "done"
    /\ final_written' = TRUE
    /\ UNCHANGED <<scanVars, inputVars, pwmVars, cache, filtered_motif_files, task, worker, wopen,
                   clash, prev, cache0, nscans, wlog>>

\* The rest of associate_tf_with_motif_pwm and of main: the valid cache files
\* are read and concatenated, or RuntimeError when there is none; main then
\* writes sliding_window_tf_to_peak_score.parquet.
Aggregate ==
    /\ pc = "aggregate"
    /\ LET valid_parquet_files == get_valid_parquet_files(cache)
       IN  IF valid_parquet_files = << >>
           THEN /\ result' = FatalError
                /\ pc' = "fatal"
                /\ UNCHANGED final_written
           ELSE /\ result' = Table(ReadParquet(cache, valid_parquet_files))
                /\ pc' = "done"
                /\ final_written' = TRUE
    /\ UNCHANGED <<scanVars, inputVars, pwmVars, cache, filtered_motif_files, task, worker, wopen,
                   clash, prev, cache0, nscans, wlog>>

\* The program is run again on the same inputs and the same output directory.
NextRun ==
    /\ pc \in {"done", "fatal"}
    /\ pc' = "start"
    /\ prev' = result
    /\ result' = NoResult
    /\ final_written' = FALSE
    /\ cache0' = cache
    /\ nscans' = 0
    /\ wlog' = {}
    /\ filtered_motif_files' = << >>
    /\ task' = [f \in MotifFiles |-> NoTask]
    /\ UNCHANGED <<scanVars, inputVars, pwmVars, cache, worker, wopen, clash>>

Next ==
    \/ StartRun
    \/ \E w \in Workers : WorkerStart(w)
    \/ \E w \in Workers, f \in MotifFiles : TaskStart(w, f)
    \/ \E f \in MotifFiles : TaskScan(f)
    \/ \E f \in MotifFiles : WriteOpen(f)
    \/ \E f \in MotifFiles : WriteClose(f)
    \/ AwaitAll
    \/ Aggregate
    \/ NextRun

Spec == Init /\ [][Next]_vars

\* StartRun as it shows on the position of main: StartRun has no guard but
\* pc = "start" and always leaves that position.
MainStarts == pc = "start" /\ pc' \in {"fatal", "pool", "aggregate"}

\* A later step of a run: of main or of some process of the pool.
RunStep ==
    \/ \E w \in Workers : WorkerStart(w)
    \/ \E w \in Workers, f \in MotifFiles : TaskStart(w, f)
    \/ \E f \in MotifFiles : TaskScan(f) \/ WriteOpen(f) \/ WriteClose(f)
    \/ AwaitAll
    \/ Aggregate

\* The processes are scheduled: main, once started, runs on, and a run that can
\* take a step takes one (main blocks only in as_completed, the pool processes
\* only on the call queue).
FairSpec == Spec /\ WF_pc(MainStarts) /\ WF_vars(RunStep)

----------------------------------------------------------------------------
(* Properties of the scan stage *)

\* The sum of f[x] over the finite set S.
RECURSIVE SumOver(_, _)
SumOver(S, f) ==
    IF S = {} THEN Num(0)
    ELSE LET x == CHOOSE y \in S : TRUE IN FAdd(f[x], SumOver(S \ {x}, f))

\* PWM[k][code], or 0 for a code outside {0,1,2,3} (k 0-based).
Contribution(pwm, code, k) == IF code \in {0, 1, 2, 3} THEN pwm[k + 1][code + 1] ELSE Num(0)

\* The sum over every window start 0 <= j <= L - wsize of the window's sum.
WindowsTotal(row, pwm) ==
    SumOver(0..(Len(row) - Len(pwm)),
            [j \in 0..(Len(row) - Len(pwm)) |->
                SumOver(0..(Len(pwm) - 1),
                        [k \in 0..(Len(pwm) - 1) |-> Contribution(pwm, row[j + k + 1], k)])])

ExamplePWM == Mat(<< <<1, 0, 0, 0>>, <<0, 1, 0, 0>> >>)

\* C1: once the kernel has run, each peak's score is the sum over both strands
\* and over all windows of the per-window PWM sums, codes outside {0,1,2,3}
\* contributing 0; with the PWM [[1,0,0,0],[0,1,0,0]], plus codes [0,1,2] and
\* minus codes [3,2,1] the score is 3 (the sum of the windows, not their maximum 2).
C1_KernelIsSumOfWindows ==
    kpc = "scored" =>
        /\ Len(out) = Len(seqs_plus)
        /\ \A i \in 1..Len(seqs_plus) :
              /\ out[i] = FAdd(WindowsTotal(seqs_plus[i], pwm_values),
                               WindowsTotal(seqs_minus[i], pwm_values))
              /\ (/\ pwm_values = ExamplePWM
                  /\ seqs_plus[i] = <<0, 1, 2>>
                  /\ seqs_minus[i] = <<3, 2, 1>>) => out[i] = Num(3)

C1_Witness ==
    /\ kpc = "scored"
    /\ pwm_values = ExamplePWM
    /\ \E i \in 1..Len(seqs_plus) :
          seqs_plus[i] = <<0, 1, 2>> /\ seqs_minus[i] = <<3, 2, 1>> /\ out[i] = Num(3)

\* C2: a peak whose own length is below the window size (the PWM row count)
\* has score 0, whatever the lengths of the other peaks of the run.
C2_ShortPeakScoresZero ==
    kpc = "scored" =>
        \A i \in 1..Len(chr_pos_to_seq) :
            Len(chr_pos_to_seq[i].plus) < Len(pwm_values) => out[i] = Num(0)

----------------------------------------------------------------------------
(* Properties of the runs *)

\* The gene-filtered mapping associates TF tf with the motif of file f.
Associated(tf, f) ==
    /\ tf \in gene_names
    /\ \E n \in 1..Len(TF_Information) :
          TF_Information[n].TF_Name = tf /\ TF_Information[n].Motif_ID = MotifId(f)

Submitted == Range(filtered_motif_files)

\* The fatal preconditions of main hold.
PreOK == tss_exists /\ species \in {"human", "hg38", "mmusculus", "mouse", "mm10", "hsapiens"}

\* The run has passed its preconditions and built its task list.
Scheduled == PreOK /\ pc \in {"pool", "aggregate", "done", "fatal"}

\* The run has come to its end: the table is returned, or RuntimeError raised.
Ended == PreOK /\ pc \in {"done", "fatal"}

\* Task f has returned True.
Succeeded(f) == task[f].st \in {"returned", "collected"} /\ task[f].flag

\* The table of the current run's peaks that the task of f writes for tf.
FrameOf(f, tf) == TFFrame(tf, chr_pos_to_seq, task[f].scores)

\* C3: a run that finds a valid cache entry for every TF of every motif file of
\* the gene-filtered mapping submits no task, scans nothing, leaves every cache
\* entry as it found it, and ends as the preceding run did, with the same table.
C3_FullCacheRunIsIdempotent ==
    (Scheduled /\ \A tf \in TFNames, f \in MotifFiles :
                     Associated(tf, f) => cache0[tf].st = "valid")
    => /\ Submitted = {}
       /\ \A f \in MotifFiles : task[f].st = "none"
       /\ nscans = 0
       /\ cache = cache0
       /\ (pc \in {"done", "fatal"} /\ prev.st # "none") => result = prev

C3_Witness ==
    /\ PreOK /\ pc = "done"
    /\ \E tf \in TFNames, f \in MotifFiles : Associated(tf, f)
    /\ \A tf \in TFNames, f \in MotifFiles : Associated(tf, f) => cache0[tf].st = "valid"
    /\ \E tf \in TFNames : cache0[tf].st = "valid" /\ cache0[tf] # Valid(OldFrame(tf))
    /\ prev.st = "table" /\ result = prev /\ Len(result.rows) > 1
    /\ Submitted = {} /\ nscans = 0

\* C4: when a run finds the cache file of a TF of the mapping unreadable, every
\* motif file of that TF is submitted (the run is not aborted), and once such a
\* task has returned True and the pool is done the TF's entry is valid and holds
\* scores computed by a task of this run.
C4_CorruptEntryIsRegenerated ==
    \A tf \in TFNames, f \in MotifFiles :
        (Scheduled /\ Associated(tf, f) /\ cache0[tf].st = "corrupt")
        => /\ f \in Submitted
           /\ (pc \in {"aggregate", "done"} /\ Succeeded(f))
              => /\ cache[tf].st = "valid"
                 /\ \E g \in Submitted :
                       /\ Associated(tf, g)
                       /\ task[g].scores # << >>
                       /\ cache[tf].rows = FrameOf(g, tf)

\* C5: a motif file is submitted exactly when its motif id occurs in the
\* gene-filtered mapping and some TF of that motif had no valid cache entry when
\* the run started; a motif file whose TFs are all cached is not submitted.
C5_SubmittedIffSomeTFUncached ==
    Scheduled =>
        \A f \in MotifFiles :
            /\ (f \in Submitted <=>
                  \E tf \in TFNames : Associated(tf, f) /\ cache0[tf].st # "valid")
            /\ (task[f].st # "none" <=> f \in Submitted)

C5_Witness ==
    /\ Scheduled
    /\ \E f, g \in MotifFiles :
          /\ f \in Submitted /\ g \notin Submitted
          /\ \E tf \in TFNames : Associated(tf, g)
          /\ \E tf, tg \in TFNames :
                /\ Associated(tf, f) /\ Associated(tg, f)
                /\ cache0[tf].st = "valid" /\ cache0[tg].st # "valid"

\* A step some process of the pool can take.
PoolStep ==
    \/ \E w \in Workers : WorkerStart(w)
    \/ \E w \in Workers, f \in MotifFiles : TaskStart(w, f)
    \/ \E f \in MotifFiles : TaskScan(f) \/ WriteOpen(f) \/ WriteClose(f)

\* A task is under way in a pool process (its next step is its own).
UnderWay == \E f \in MotifFiles : task[f].st \in {"running", "writing"}

\* C6: errors raised in tasks do not abort the run: while tasks are unfinished
\* a task is under way or the pool can take a step, the run leaves the pool
\* only when every submitted task has returned its flag, a task that returned
\* True has written the file of each of its TFs, and the run ends by
\* aggregation (RuntimeError only when the directory holds no valid file).
C6_TaskErrorsAreContained ==
    /\ (pc = "pool" /\ \E f \in Submitted : task[f].st \notin {"returned", "collected"})
       => (UnderWay \/ ENABLED PoolStep)
    /\ (PreOK /\ pc \in {"aggregate", "done", "fatal"})
       => \A f \in Submitted :
             /\ task[f].st = "collected"
             /\ task[f].flag =>
                   \A n \in 1..Len(tf_names(f, gene_names)) :
                       <<f, tf_names(f, gene_names)[n]>> \in wlog
    /\ (PreOK /\ pc = "fatal") => get_valid_parquet_files(cache) = << >>
    /\ (PreOK /\ pc = "done") => result.st = "table"

C6_Witness ==
    /\ PreOK /\ pc = "done" /\ result.st = "table"
    /\ \E f, g \in Submitted :
          /\ task[f].st = "collected" /\ ~task[f].flag
          /\ task[g].st = "collected" /\ task[g].flag
          /\ \E tf \in TFNames : Associated(tf, g)
          /\ \A tf \in TFNames : Associated(tf, g) => cache[tf] = Valid(FrameOf(g, tf))

\* C7: no two tasks of a run write the same cache file, and no cache file is
\* open for writing in two tasks at once.
C7_WritersAreDisjoint ==
    /\ \A f, g \in MotifFiles, tf \in TFNames :
          (<<f, tf>> \in wlog /\ <<g, tf>> \in wlog) => f = g
    /\ \A tf \in TFNames : Cardinality(wopen[tf]) <= 1

\* C8: the cache a run leaves does not depend on the order in which its tasks
\* ran: when every task has returned True, each entry holds the table of every
\* task that wrote it (whichever of them wrote last), and the aggregated table
\* is the concatenation of these.
C8_OrderIndependent ==
    (Ended /\ \A f \in Submitted : task[f].flag)
    => \A f \in Submitted, tf \in TFNames :
          Associated(tf, f) => cache[tf] = Valid(FrameOf(f, tf))

\* C9: no two rows of the aggregated table have the same peak_id and source_id.
C9_OneRowPerPeakAndTF ==
    (PreOK /\ pc = "done")
    => \A i, j \in 1..Len(result.rows) :
          (/\ result.rows[i].peak_id = result.rows[j].peak_id
           /\ result.rows[i].source_id = result.rows[j].source_id) => i = j

C9_Witness ==
    /\ PreOK /\ pc = "done"
    /\ \E i, j, k \in 1..Len(result.rows) :
          /\ result.rows[i].peak_id = result.rows[j].peak_id
          /\ result.rows[i].source_id # result.rows[j].source_id
          /\ result.rows[i].peak_id # result.rows[k].peak_id
          /\ result.rows[i].source_id = result.rows[k].source_id

\* The rows of the sequence of tables tbls, summed / with a NaN score counted.
RECURSIVE CountRows(_, _)
CountRows(c, S) ==
    IF S = {} THEN 0
    ELSE LET tf == CHOOSE x \in S : TRUE
         IN  Len(c[tf].rows) + CountRows(c, S \ {tf})

NullRows(c, tf) == {n \in 1..Len(c[tf].rows) : c[tf].rows[n].sliding_window_score.nan}

RECURSIVE CountNull(_, _)
CountNull(c, S) ==
    IF S = {} THEN 0
    ELSE LET tf == CHOOSE x \in S : TRUE
         IN  Cardinality(NullRows(c, tf)) + CountNull(c, S \ {tf})

ValidTFs(c) == {tf \in TFNames : c[tf].st = "valid"}

\* C10: the aggregated table holds no row with a missing score; its rows are
\* those of the valid cache files without their null-score rows, each file's
\* rows together and in order, and their number is the sum of the files' row
\* counts minus the number of their rows with a null score.
C10_AggregateIsConcatOfValidFiles ==
    (PreOK /\ pc = "done")
    => /\ \A i \in 1..Len(result.rows) : ~result.rows[i].sliding_window_score.nan
       /\ Len(result.rows) = CountRows(cache, ValidTFs(cache)) - CountNull(cache, ValidTFs(cache))
       /\ \A i \in 1..Len(result.rows) :
             /\ result.rows[i].source_id \in ValidTFs(cache)
             /\ \E n \in 1..Len(cache[result.rows[i].source_id].rows) :
                   cache[result.rows[i].source_id].rows[n] = result.rows[i]
       /\ \A tf \in ValidTFs(cache) : \A n \in 1..Len(cache[tf].rows) :
             ~cache[tf].rows[n].sliding_window_score.nan
             => \E i \in 1..Len(result.rows) : result.rows[i] = cache[tf].rows[n]

C10_Witness ==
    /\ PreOK /\ pc = "done"
    /\ Cardinality(ValidTFs(cache)) >= 2
    /\ \E tf \in TFNames : cache[tf].st = "corrupt"
    /\ \E tf \in ValidTFs(cache), f \in Submitted :
          /\ Succeeded(f)
          /\ cache[tf].rows = FrameOf(f, tf)
          /\ \E n \in 1..Len(task[f].scores) : task[f].scores[n].nan
          /\ Len(cache[tf].rows) < Len(chr_pos_to_seq)

\* C11: a run that has left the pool (or skipped it) with no readable cache file
\* in the directory ends with RuntimeError and does not write
\* sliding_window_tf_to_peak_score.parquet; a run that ends with a table found
\* at least one readable file.
C11_NoValidFileIsFatal ==
    /\ (Ended /\ get_valid_parquet_files(cache) = << >>)
       => pc = "fatal" /\ result = FatalError /\ ~final_written
    /\ (PreOK /\ pc = "fatal") => ~final_written
    /\ (PreOK /\ pc = "done") => get_valid_parquet_files(cache) # << >> /\ final_written

C11_Witness ==
    /\ PreOK /\ pc = "fatal" /\ result = FatalError /\ ~final_written
    /\ get_valid_parquet_files(cache) = << >>
    /\ \E f \in Submitted : task[f].st = "collected"
    /\ \E tf \in TFNames : cache[tf].st = "corrupt" /\ cache0[tf].st = "valid"

\* C12: a run without tss_distance_score.parquet, or with a species label that
\* get_background_freq does not know, ends with a fatal error at its start: no
\* task is submitted, no pool process is started, nothing is scanned, no cache
\* file is written or changed, and the final file is not written.
C12_FatalPreconditionsAbortEarly ==
    (~PreOK /\ pc # "start")
    => /\ pc = "fatal"
       /\ result = FatalError
       /\ Submitted = {}
       /\ \A f \in MotifFiles : task[f] = NoTask
       /\ \A w \in Workers : worker[w] = Down
       /\ nscans = 0
       /\ wlog = {}
       /\ cache = cache0
       /\ ~final_written

C12_Witness ==
    /\ tss_exists /\ species = "rat" /\ pc = "fatal"
    /\ chr_pos_to_seq # << >>
    /\ \E f \in MotifFiles : NeedsScoring(f, gene_names, cache)
    /\ nscans = 0 /\ wlog = {} /\ Submitted = {}

----------------------------------------------------------------------------
(* Properties of the PWM stage *)

\* C13: get_background_freq returns A=T=0.29182, C=G=0.20818 for the labels
\* human, hg38 and mmusculus, A=T=0.2917, C=G=0.2083 for mouse, mm10 and
\* hsapiens, and raises (returns nothing) for every other label; the result
\* depends on the label only.
C13_BackgroundFreqMapping ==
    /\ kpc \in {"background", "pwm", "raised"} =>
          /\ species \in {"human", "hg38", "mmusculus"}
                => background_freq = [ok |-> TRUE, freq |-> <<29182, 20818, 20818, 29182>>]
          /\ species \in {"mouse", "mm10", "hsapiens"}
                => background_freq = [ok |-> TRUE, freq |-> <<29170, 20830, 20830, 29170>>]
          /\ species \notin {"human", "hg38", "mmusculus", "mouse", "mm10", "hsapiens"}
                => kpc = "raised" /\ background_freq = NoBackground
    /\ kpc = "raised" =>
          species \notin {"human", "hg38", "mmusculus", "mouse", "mm10", "hsapiens"}

C13_Witness ==
    /\ kpc = "background" /\ species = "mmusculus"
    /\ background_freq.freq = <<29182, 20818, 20818, 29182>>

\* C14: the PWM built from a motif table of w rows and four base columns has
\* w + 1 rows of 4 columns each, and its last row is all zeros.
C14_PwmHasOneMoreRow ==
    kpc = "pwm" =>
        /\ Len(pwm_values) = Len(motif_df) + 1
        /\ \A r \in 1..Len(pwm_values) : Len(pwm_values[r]) = 4
        /\ pwm_values[Len(pwm_values)] = ZeroRow

C14_Witness ==
    /\ kpc = "pwm" /\ Len(motif_df) = 2 /\ Len(pwm_values) = 3
    /\ pwm_values[3] = ZeroRow /\ pwm_values[2] # ZeroRow

----------------------------------------------------------------------------
(* Properties of the sequence extraction *)

\* Some fasta record carries the chromosome.
InReference(chr) == \E r \in 1..Len(Reference) : Reference[r].id = chr

\* C15: find_ATAC_peak_sequence never raises, and the table it returns holds
\* exactly the peaks of the peak table whose chromosome is in the reference.
C15_MissingChromosomesAreExcluded ==
    /\ kpc # "index_error"
    /\ kpc \in {"sequences", "padded"} =>
          /\ \A n \in 1..Len(peak_df) :
                InReference(peak_df[n].chromosome)
                <=> \E m \in 1..Len(chr_pos_to_seq) :
                       PeakId(chr_pos_to_seq[m]) = PeakId(peak_df[n])
          /\ \A m \in 1..Len(chr_pos_to_seq) :
                \E n \in 1..Len(peak_df) : PeakId(chr_pos_to_seq[m]) = PeakId(peak_df[n])

\* C16: every peak of the sequence table has plus and minus code arrays of
\* length end - start, and every row of the padded matrices has length max_len,
\* which is at least end - start.
C16_SequenceLengthIsEndMinusStart ==
    /\ kpc \in {"sequences", "padded"} =>
          \A m \in 1..Len(chr_pos_to_seq) :
             /\ Len(chr_pos_to_seq[m].plus) = chr_pos_to_seq[m].end - chr_pos_to_seq[m].start
             /\ Len(chr_pos_to_seq[m].minus) = chr_pos_to_seq[m].end - chr_pos_to_seq[m].start
    /\ kpc = "padded" =>
          /\ Len(seqs_plus) = Len(chr_pos_to_seq) /\ Len(seqs_minus) = Len(chr_pos_to_seq)
          /\ \A m \in 1..Len(chr_pos_to_seq) :
                /\ Len(seqs_plus[m]) = max_len(chr_pos_to_seq)
                /\ Len(seqs_minus[m]) = max_len(chr_pos_to_seq)
                /\ max_len(chr_pos_to_seq) >= chr_pos_to_seq[m].end - chr_pos_to_seq[m].start

----------------------------------------------------------------------------
(* Memory safety of the kernel *)

\* C17: on the matrices and the PWM handed to it the kernel reads a strand row
\* only at columns 0 <= j + k < L and the PWM only at rows 0 <= k < wsize and
\* columns 0..3 (the codes 4 and -1 are never used as a column); it returns one
\* score per peak, and with L < wsize every score is 0.
C17_KernelReadsInRange ==
    kpc \in {"padded", "scored"} =>
        LET L == IF Len(seqs_plus) = 0 THEN 0 ELSE Len(seqs_plus[1])
            wsize == Len(pwm_values)
        IN  /\ Len(seqs_minus) = Len(seqs_plus)
            /\ \A i \in 1..Len(seqs_plus) : Len(seqs_plus[i]) = L /\ Len(seqs_minus[i]) = L
            /\ \A c \in KernelSeqReads(L, wsize) : 0 <= c /\ c < L
            /\ \A i \in 1..Len(seqs_plus) :
                  \A rc \in KernelPwmReads(seqs_plus[i], L, wsize)
                             \cup KernelPwmReads(seqs_minus[i], L, wsize) :
                      /\ 0 <= rc[1] /\ rc[1] < wsize
                      /\ rc[2] \in {0, 1, 2, 3}
                      /\ rc[2] < Len(pwm_values[rc[1] + 1])
            /\ kpc = "scored" =>
                  /\ Len(out) = Len(seqs_plus)
                  /\ L < wsize => \A i \in 1..Len(out) : out[i] = Num(0)

\* A scan with windows over a row that holds N (4) and a character outside
\* ACGTN (-1), next to a row with padding.
C17_Witness ==
    /\ kpc = "scored"
    /\ Len(pwm_values) <= Len(seqs_plus[1])
    /\ \E i \in 1..Len(seqs_plus) :
          /\ \E c \in 1..Len(seqs_plus[i]) : seqs_plus[i][c] = 4
          /\ \E c \in 1..Len(seqs_plus[i]) : seqs_plus[i][c] = -1
          /\ KernelPwmReads(seqs_plus[i], Len(seqs_plus[i]), Len(pwm_values)) # {}
    /\ \E i \in 1..Len(seqs_plus) :
          Len(chr_pos_to_seq[i].plus) < Len(seqs_plus[i])

----------------------------------------------------------------------------
(* Properties of a task *)

\* Two tables have the same peak ids and scores, row by row.
SameButSource(r1, r2) ==
    /\ Len(r1) = Len(r2)
    /\ \A n \in 1..Len(r1) :
          /\ r1[n].peak_id = r2[n].peak_id
          /\ r1[n].sliding_window_score = r2[n].sliding_window_score

\* The TFs whose cache file task f has written (begun to write) in this run.
WriteSet(f) == {tf \in TFNames : <<f, tf>> \in wlog}

\* C18: a task that has returned True for a motif file has written the cache
\* file of each TF the gene-filtered mapping associates with the motif and of
\* no other TF, and these files hold the same peak ids and scores, each with
\* its own TF as source_id.
C18_TaskWritesOneEntryPerTF ==
    \A f \in MotifFiles :
        (PreOK /\ Succeeded(f)) =>
            /\ WriteSet(f) = {tf \in TFNames : Associated(tf, f)}
            /\ \A tf \in WriteSet(f) :
                  /\ cache[tf].st = "valid"
                  /\ \A n \in 1..Len(cache[tf].rows) : cache[tf].rows[n].source_id = tf
            /\ \A t1, t2 \in WriteSet(f) : SameButSource(cache[t1].rows, cache[t2].rows)

\* C19: what a task returns is a boolean and nothing else: True exactly when no
\* exception was raised in it, and then the motif file was read, the peaks were
\* scored and the file of every associated TF was written; False exactly when
\* an exception was raised while reading, scoring or writing.
C19_TaskReturnsSuccessFlag ==
    \A f \in MotifFiles :
        task[f].st \in {"returned", "collected"} =>
            /\ task[f].flag \in BOOLEAN
            /\ task[f].flag <=> ~task[f].err
            /\ task[f].flag =>
                  /\ MotifFile(f).ok
                  /\ Len(task[f].scores) = Len(chr_pos_to_seq)
                  /\ task[f].k = Len(tf_names(f, gene_names))
                  /\ \A tf \in TFNames : Associated(tf, f) => <<f, tf>> \in wlog
            /\ (~MotifFile(f).ok \/ task[f].scores = << >>
                   \/ task[f].k < Len(tf_names(f, gene_names))) => ~task[f].flag

C19_Witness ==
    \E f, g, h \in MotifFiles :
        /\ task[f].st = "returned" /\ task[f].flag /\ ~task[f].err
        /\ task[g].st = "returned" /\ ~task[g].flag /\ task[g].scores # << >>
        /\ WriteSet(g) # {} /\ WriteSet(g) # {tf \in TFNames : Associated(tf, g)}
        /\ task[h].st = "returned" /\ ~task[h].flag /\ ~MotifFile(h).ok

\* The aggregator is at, or past, its scan of the cache directory.
Aggregating == PreOK /\ pc \in {"aggregate", "done", "fatal"}

\* C20: when the aggregator lists the cache directory every submitted task has
\* completed and handed over its flag, no pool process is alive and no cache
\* file is open for writing; from then to the end of the run no cache file is
\* written or changed.
C20_AggregationFollowsAllTasks ==
    /\ [](Aggregating =>
            /\ \A f \in MotifFiles :
                  task[f].st = IF f \in Submitted THEN "collected" ELSE "none"
            /\ \A w \in Workers : worker[w] = Down
            /\ \A tf \in TFNames : wopen[tf] = {})
    /\ [][Aggregating => (cache' = cache /\ wlog' \subseteq wlog)]_vars

C20_Witness ==
    /\ PreOK /\ pc = "aggregate"
    /\ Cardinality(Submitted) >= 2
    /\ \A f \in Submitted : task[f].st = "collected"
    /\ \E f \in Submitted, tf \in TFNames :
          <<f, tf>> \in wlog /\ cache[tf] # cache0[tf] /\ cache[tf].st = "valid"

----------------------------------------------------------------------------
(* Properties of the pool *)

\* C21: a pool process has its globals set from the moment it exists, they are
\* set at its start and at no other time, every task runs in a process whose
\* globals are set (the assertions of process_motif_file_and_save hold), and
\* while the pool is open the sequence table, the mapping, the background
\* frequencies and the padded matrices are not changed.
C21_WorkersInitializedOnce ==
    /\ [](/\ \A w \in Workers : worker[w].st # "down" => worker[w].init
          /\ \A f \in MotifFiles :
                task[f].st \in {"running", "writing"}
                => /\ task[f].w \in Workers
                   /\ worker[task[f].w].init
                   /\ worker[task[f].w].st = "busy")
    /\ [][/\ \A w \in Workers :
               worker'[w].init # worker[w].init
               => \/ worker[w] = Down /\ worker'[w].init /\ pc = "pool"
                  \/ worker'[w] = Down
          /\ (pc = "pool" /\ pc' = "pool")
             => UNCHANGED <<chr_pos_to_seq, seqs_plus, seqs_minus, gene_names, species>>]_vars

\* Three tasks on two processes: a process whose globals were set once has
\* taken a second call.
C21_Witness ==
    /\ pc = "pool" /\ Cardinality(Submitted) = 3
    /\ \A w \in Workers : worker[w].init
    /\ Cardinality({f \in Submitted : task[f].st = "returned"}) = 2
    /\ \E f \in Submitted : task[f].st = "writing"

\* C22: every run terminates.  Under fair scheduling a started run reaches its
\* end, the table or the fatal error; a run is past the pool only when every
\* submitted task has completed and main has collected its flag, so every
\* submitted task completes; and the end is a table or the fatal error.
C22_EveryRunTerminates ==
    /\ (pc = "start") ~> (pc \in {"done", "fatal"})
    /\ [](/\ (Scheduled /\ pc # "pool")
              => \A f \in MotifFiles :
                    task[f].st = (IF f \in Submitted THEN "collected" ELSE "none")
          /\ pc = "done" => result.st = "table"
          /\ pc = "fatal" => result = FatalError)

C22_Witness ==
    /\ PreOK /\ pc \in {"done", "fatal"}
    /\ Cardinality(Submitted) = 3
    /\ \A f \in Submitted : task[f].st = "collected"
    /\ \E f, g \in Submitted : task[f].flag /\ ~task[g].flag

\* The codes of a peak read off the reference genome, and padded to n columns.
RefRecord(chr) == Reference[CHOOSE r \in 1..Len(Reference) : Reference[r].id = chr]
OwnPlus(p) == Slice(PlusMapped(RefRecord(p.chromosome)), p.start, p.end)
OwnMinus(p) == Slice(NegMapped(RefRecord(p.chromosome)), p.start, p.end)
PadTo(codes, n) == [c \in 1..n |-> IF c <= Len(codes) THEN codes[c] ELSE -1]

\* The tasks whose scores have been computed.
Scored == {f \in Submitted : task[f].scores # << >>}

\* C23: the rows of the two strand matrices, the elements of a task's score
\* vector and the peak ids written to a cache entry are aligned: row i of either
\* matrix encodes the i-th peak of the sequence table, element i of the score
\* vector is the score of those two rows, and every row of an entry written in
\* the run carries the id of some peak i with element i of the score vector of
\* a task that wrote the entry.
C23_RowsReferToTheSamePeak ==
    Scheduled =>
        /\ Len(seqs_plus) = Len(chr_pos_to_seq)
        /\ Len(seqs_minus) = Len(chr_pos_to_seq)
        /\ \A i \in 1..Len(chr_pos_to_seq) :
              /\ seqs_plus[i] = PadTo(OwnPlus(chr_pos_to_seq[i]), max_len(chr_pos_to_seq))
              /\ seqs_minus[i] = PadTo(OwnMinus(chr_pos_to_seq[i]), max_len(chr_pos_to_seq))
        /\ \A f \in Scored :
              /\ Len(task[f].scores) = Len(chr_pos_to_seq)
              /\ \A i \in 1..Len(chr_pos_to_seq) :
                    task[f].scores[i] =
                        PeakScore(PadTo(OwnPlus(chr_pos_to_seq[i]), max_len(chr_pos_to_seq)),
                                  PadTo(OwnMinus(chr_pos_to_seq[i]), max_len(chr_pos_to_seq)),
                                  BuildPWM(MotifFile(f).freq, get_background_freq(species).freq),
                                  max_len(chr_pos_to_seq))
        /\ \A tf \in TFNames :
              (cache[tf].st = "valid" /\ cache[tf] # cache0[tf])
              => \E g \in Scored :
                    /\ <<g, tf>> \in wlog
                    /\ \A n \in 1..Len(cache[tf].rows) :
                          \E i \in 1..Len(chr_pos_to_seq) :
                             /\ cache[tf].rows[n].peak_id = PeakId(chr_pos_to_seq[i])
                             /\ cache[tf].rows[n].sliding_window_score = task[g].scores[i]

\* A finished run in which the task of M2.txt has written the entry of T2: the
\* first peak's score is NaN and its row dropped, the entry's only row is the
\* second peak with its own score.
C23_Witness ==
    /\ PreOK /\ pc = "done"
    /\ "M2.txt" \in Scored
    /\ task["M2.txt"].scores[1].nan /\ ~task["M2.txt"].scores[2].nan
    /\ cache["T2"] = Valid(<< [peak_id |-> PeakId(RunPeaks[2]), source_id |-> "T2",
                              sliding_window_score |-> task["M2.txt"].scores[2]] >>)
    /\ \E tf \in TFNames : cache[tf].st = "valid" /\ Len(cache[tf].rows) = 2

\* The length of the longest code array of the sequence table (peak_len).
LongestPeak(tbl) ==
    CHOOSE m \in 0..MaxPeakLen :
        /\ \A n \in 1..Len(tbl) : Len(tbl[n].plus) <= m
        /\ \E n \in 1..Len(tbl) : Len(tbl[n].plus) = m

\* C24: after padding each strand matrix has one row per peak of the sequence
\* table and as many columns as the longest peak has codes; row i holds the
\* codes of peak i unchanged, all of them, followed by -1 up to the last column.
C24_PaddingKeepsCodes ==
    kpc = "padded" =>
        /\ Len(seqs_plus) = Len(chr_pos_to_seq)
        /\ Len(seqs_minus) = Len(chr_pos_to_seq)
        /\ \A i \in 1..Len(chr_pos_to_seq) :
              /\ Len(seqs_plus[i]) = LongestPeak(chr_pos_to_seq)
              /\ Len(seqs_minus[i]) = LongestPeak(chr_pos_to_seq)
              /\ Len(chr_pos_to_seq[i].plus) <= Len(seqs_plus[i])
              /\ Len(chr_pos_to_seq[i].minus) <= Len(seqs_minus[i])
              /\ \A c \in 1..LongestPeak(chr_pos_to_seq) :
                    /\ seqs_plus[i][c] = IF c <= Len(chr_pos_to_seq[i].plus)
                                         THEN chr_pos_to_seq[i].plus[c] ELSE -1
                    /\ seqs_minus[i][c] = IF c <= Len(chr_pos_to_seq[i].minus)
                                          THEN chr_pos_to_seq[i].minus[c] ELSE -1

\* Two peaks of different lengths: the longer fills its row, the shorter is
\* followed by -1.
C24_Witness ==
    /\ kpc = "padded"
    /\ \E i, j \in 1..Len(chr_pos_to_seq) :
          /\ Len(chr_pos_to_seq[i].plus) = MaxPeakLen
          /\ seqs_plus[i] = chr_pos_to_seq[i].plus
          /\ Len(chr_pos_to_seq[j].plus) = 1
          /\ seqs_plus[j] = chr_pos_to_seq[j].plus \o [c \in 1..(MaxPeakLen - 1) |-> -1]

\* The code of a character of a chromosome, whatever its case.
BaseCode(ch) ==
    CASE ch \in {"A", "a"} -> 0 [] ch \in {"C", "c"} -> 1 [] ch \in {"G", "g"} -> 2
      [] ch \in {"T", "t"} -> 3 [] ch \in {"N", "n"} -> 4 [] OTHER -> -1

\* The character at 0-based position p of the chromosome of a peak.
CharAt(row, p) == RefRecord(row.chromosome).seq[p + 1]

\* C25: at every position p of a peak the plus code is the code of the
\* upper-cased character of the chromosome at p (A, C, G, T, N -> 0..4, others
\* -1) and the minus code is the code of its complement at the same p: 3 minus
\* the plus code for a plus code in 0..3, and 4 for 4; the minus strand is not
\* reversed.
C25_StrandCodes ==
    kpc \in {"sequences", "padded"} =>
        \A i \in 1..Len(chr_pos_to_seq) :
            /\ Len(chr_pos_to_seq[i].minus) = Len(chr_pos_to_seq[i].plus)
            /\ \A c \in 1..Len(chr_pos_to_seq[i].plus) :
                  LET ch == CharAt(chr_pos_to_seq[i], chr_pos_to_seq[i].start + c - 1)
                      plus == chr_pos_to_seq[i].plus[c]
                      minus == chr_pos_to_seq[i].minus[c]
                  IN  /\ plus = BaseCode(ch)
                      /\ minus = BaseCode(Complement(ch))
                      /\ plus \in 0..3 => minus = 3 - plus
                      /\ plus = 4 => minus = 4

\* A peak over T, N and the IUPAC letter r of chr1 and a peak over the
\* lower-case start of chr2.
C25_Witness ==
    /\ kpc = "sequences"
    /\ \E i, j \in 1..Len(chr_pos_to_seq) :
          /\ chr_pos_to_seq[i].plus = <<3, 4, -1>> /\ chr_pos_to_seq[i].minus = <<0, 4, -1>>
          /\ chr_pos_to_seq[j].plus = <<0, 1>> /\ chr_pos_to_seq[j].minus = <<3, 2>>

\* The w log-odds rows of a PWM as the task builds it: the PWM without its
\* appended last row.
LogOddsRows(pwm) == SubSeq(pwm, 1, Len(pwm) - 1)

\* C26: the scores computed with a PWM as the task builds it (the log-odds rows
\* followed by the row of zeros) are the scores of the same padded matrices
\* under the log-odds rows alone.
C26_ZeroRowKeepsScores ==
    (kpc = "scored" /\ pwm_values[Len(pwm_values)] = ZeroRow)
    => out = score_all_peaks(seqs_plus, seqs_minus, LogOddsRows(pwm_values))

\* The TFs of the gene-filtered mapping: those it associates with some motif.
MappedTFs == {tf_df(gene_names)[n].TF_Name : n \in 1..Len(tf_df(gene_names))}

\* C27: every row of the table a run returns carries a TF of the run's
\* gene-filtered mapping; valid cache files of other TFs contribute no row.
C27_TableHoldsMappedTFsOnly ==
    (PreOK /\ pc = "done")
    => \A i \in 1..Len(result.rows) : result.rows[i].source_id \in MappedTFs

\* C28: at the end of a run in which every submitted task returned True every
\* TF of a submitted motif file has a valid cache entry, and the list of motif
\* files that a run started now on the same inputs would submit is empty.
C28_AllTrueRunLeavesFullCache ==
    (Ended /\ \A f \in Submitted : task[f].flag)
    => /\ \A tf \in TFNames, f \in Submitted : Associated(tf, f) => cache[tf].st = "valid"
       /\ FilterMotifFiles(MemeDir, gene_names, cache) = << >>

\* The task of f has failed: an exception was raised and it returned False.
FailedTask(f) == f \in Submitted /\ task[f].err /\ task[f].st \in {"returned", "collected"}

\* The TFs whose files a task had written and closed before its present one.
WrittenBy(f) == {tf_names(f, gene_names)[n] : n \in 1..(task[f].k - 1)}

\* C29: the entries a task wrote before it failed stay as it wrote them, their
\* rows are in the table the same run returns, and at the end of the run the
\* motif file would be submitted again exactly when some TF associated with it
\* has no valid entry.
C29_FailedTaskKeepsWrittenEntries ==
    Scheduled =>
        \A f \in MotifFiles :
            FailedTask(f) =>
                /\ \A tf \in WrittenBy(f) :
                      /\ cache[tf] = Valid(FrameOf(f, tf))
                      /\ pc = "done" =>
                            \A n \in 1..Len(FrameOf(f, tf)) :
                               \E i \in 1..Len(result.rows) : result.rows[i] = FrameOf(f, tf)[n]
                /\ Ended =>
                      (f \in Range(FilterMotifFiles(MemeDir, gene_names, cache))
                       <=> \E tf \in TFNames : Associated(tf, f) /\ cache[tf].st # "valid")

\* C30: a run changes the cache entry of a TF only if it has submitted a motif
\* file associated with that TF; every other entry is as the run found it, and
\* main changes no entry, neither before the pool nor in the aggregation.
C30_CacheFrame ==
    /\ [](\A tf \in TFNames :
            cache[tf] # cache0[tf] => \E f \in Submitted : Associated(tf, f))
    /\ [][(pc \in {"start", "aggregate", "done", "fatal"}) => (cache' = cache)]_vars

\* A finished run that has rewritten one entry and left alone an unreadable
\* file and a valid file of TFs for which it submitted nothing.
C30_Witness ==
    /\ PreOK /\ pc = "done"
    /\ \E ta, tb, tc \in TFNames :
          /\ cache[ta] # cache0[ta]
          /\ cache0[tb].st = "corrupt" /\ cache[tb] = cache0[tb]
          /\ cache0[tc].st = "valid" /\ cache[tc] = cache0[tc]
          /\ \A f \in Submitted : ~Associated(tb, f) /\ ~Associated(tc, f)
====
